---- MODULE Spec2Model ----
(***************************************************************************)
(* django-swingtime: swingtime/base_models.py.                             *)
(*                                                                         *)
(* The model covers EventBase.add_occurrences, _daily_occurrences,         *)
(* OccurrenceManager.daily_occurrences and the create_event factory,       *)
(* together with the parts of their environment that decide what they do:  *)
(* dateutil's rrule iterator (DAILY and WEEKLY rules with an interval,     *)
(* count and until), and the database behind the Django managers (tables   *)
(* with auto-incremented keys, the unique constraint on EventType.abbr,    *)
(* get_or_create's get / create / get-again sequence, bulk_create's        *)
(* batches inside one transaction).                                        *)
(*                                                                         *)
(* Time is an integer number of ticks; a second has TicksPerSecond ticks,  *)
(* which stands for datetime's sub-second (microsecond) resolution.  All   *)
(* datetimes are positive, so None is never a datetime.                    *)
(***************************************************************************)
EXTENDS Integers, Sequences, FiniteSets, TLC

VARIABLES
    eventTypeTable,   \* rows of EventType: <<[abbr, label]>>, pk = index
    eventTable,       \* rows of Event: <<[event_type]>>, pk = index
    occurrenceTable,  \* committed rows of Occurrence, pk = index
    pc,               \* per thread: where it is in its current call
    call,             \* per thread: the arguments of its current call
    frame,            \* per thread: the locals of its current call
    ncalls            \* number of calls started so far

vars == <<eventTypeTable, eventTable, occurrenceTable, pc, call, frame, ncalls>>

-----------------------------------------------------------------------------
(* Bounds of the model. *)

TicksPerSecond == 2
NumThreads == 2
MaxCalls == 2
MaxCount == 3
MaxInterval == 2
BatchSize == 2

Threads == 1..NumThreads

-----------------------------------------------------------------------------
(* Python values. *)

None == -1

Second == TicksPerSecond
Minute == 60 * Second
Hour == 60 * Minute
Day == 24 * Hour
Week == 7 * Day

\* dateutil.rrule.DAILY, dateutil.rrule.WEEKLY
DAILY == 3
WEEKLY == 2

\* swingtime.conf: the default duration of an occurrence.
DEFAULT_OCCURRENCE_DURATION == Hour

\* bool(x) of an optional integer: None and 0 are false.
Truthy(x) == x # None /\ x # 0

\* datetime.replace(microsecond=0)
TruncateMicroseconds(t) == t - (t % Second)

\* datetime.now().replace(minute=0, second=0, microsecond=0)
TruncateToHour(t) == t - (t % Hour)

\* datetime(dt.year, dt.month, dt.day)
StartOfDay(dt) == dt - (dt % Day)

\* start.replace(hour=23, minute=59, second=59)
EndOfDay(start) == start + 23 * Hour + 59 * Minute + 59 * Second

-----------------------------------------------------------------------------
(* dateutil.rrule.rrule(dtstart=start_time, freq, interval, count, until),  *)
(* as add_occurrences iterates it.  Only DAILY and WEEKLY rules without     *)
(* by-rules are modelled: their candidates are dtstart + k * interval days  *)
(* (weeks).                                                                 *)

\* The length of one step of the rule.
FreqUnit(freq) == IF freq = WEEKLY THEN Week ELSE Day

\* rrule._iter for interval >= 0: the candidate res is dropped and the
\* iteration ends when it is past until; otherwise count is decremented and
\* the iteration ends when it falls below 0; otherwise res is yielded.
RECURSIVE rrule_iter(_, _, _, _, _)
rrule_iter(res, step, count, until, yielded) ==
    IF until # None /\ res > until THEN yielded
    ELSE IF count # None /\ count - 1 < 0 THEN yielded
    ELSE rrule_iter(res + step, step,
                    IF count = None THEN None ELSE count - 1,
                    until, Append(yielded, res))

\* What iterating the rule does: the datetimes it yields and how it ends.
\*  - rrule.__init__ drops dtstart's microseconds and checks neither the
\*    interval nor until;
\*  - a negative interval walks the day counter backwards: the candidates
\*    before dtstart are skipped and the counter leaves the month, which
\*    raises ValueError (after dtstart itself was yielded, unless until or
\*    count ended the iteration on the first candidate);
\*  - interval 0 yields dtstart again and again: count ends it, until does
\*    not (unless dtstart is already past until), and then the loop of
\*    add_occurrences never ends.
rrule(dtstart, freq, interval, count, until) ==
    LET start == TruncateMicroseconds(dtstart)
        cut   == until # None /\ start > until
    IN  IF interval < 0
        THEN IF cut \/ (count # None /\ count < 1)
             THEN [yielded |-> <<>>, outcome |-> "ok"]
             ELSE [yielded |-> <<start>>, outcome |-> "ValueError"]
        ELSE IF interval = 0 /\ count = None /\ ~cut
        THEN [yielded |-> <<>>, outcome |-> "diverges"]
        ELSE [yielded |-> rrule_iter(start, interval * FreqUnit(freq),
                                     count, until, <<>>),
              outcome |-> "ok"]

-----------------------------------------------------------------------------
(* EventBase.add_occurrences: the parts that touch no table. *)

\* A slip: not (count and until).
SingleOccurrence_and(count, until) == ~(Truthy(count) /\ until # None)

\* line 72: not (count or until).  A datetime is always true.
SingleOccurrence(count, until) == ~(Truthy(count) \/ until # None)

\* A slip: end_time=start_time.
single_occurrence_start_twice(event, start_time, end_time) ==
    [event |-> event, start_time |-> start_time, end_time |-> start_time]

\* line 73: the arguments of occurrence_set.create.
single_occurrence(event, start_time, end_time) ==
    [event |-> event, start_time |-> start_time, end_time |-> end_time]

\* A slip: the default is rrule.WEEKLY.
setdefault_freq_weekly(freq) == IF freq = None THEN WEEKLY ELSE freq

\* line 75: rrule_params.setdefault('freq', rrule.DAILY)
setdefault_freq(freq) == IF freq = None THEN DAILY ELSE freq

\* A slip: end_time=ev.
model_cls_without_delta(event, ev, delta) ==
    [event |-> event, start_time |-> ev, end_time |-> ev]

\* lines 80-84: model_cls(start_time=ev, end_time=ev + delta, event=self)
model_cls(event, ev, delta) ==
    [event |-> event, start_time |-> ev, end_time |-> ev + delta]

\* lines 75-84: the list the loop builds from what the rule yields.
expand(event, start_time, end_time, freq, interval, count, until) ==
    LET r     == rrule(start_time, setdefault_freq(freq), interval, count, until)
        delta == end_time - start_time
    IN  [occurrences |-> [i \in DOMAIN r.yielded |->
                             model_cls(event, r.yielded[i], delta)],
         outcome |-> r.outcome]

-----------------------------------------------------------------------------
(* _daily_occurrences and OccurrenceManager.daily_occurrences. *)

\* A slip: start_time__lt=end in the first Q.
DayOverlapQ_start_lt_end(row, start, end) ==
    \/ (row.start_time >= start /\ row.start_time < end)
    \/ (row.end_time >= start /\ row.end_time <= end)
    \/ (row.start_time < start /\ row.end_time > end)

\* A slip: the third Q is left out.
DayOverlapQ_two_clauses(row, start, end) ==
    \/ (row.start_time >= start /\ row.start_time <= end)
    \/ (row.end_time >= start /\ row.end_time <= end)

\* lines 114-116: the three Q objects, or-ed.
DayOverlapQ(row, start, end) ==
    \/ (row.start_time >= start /\ row.start_time <= end)
    \/ (row.end_time >= start /\ row.end_time <= end)
    \/ (row.start_time < start /\ row.end_time > end)

\* Meta.ordering = ('start_time', 'end_time'); equal rows by primary key.
OrderedBefore(table, i, j) ==
    \/ table[i].start_time < table[j].start_time
    \/ /\ table[i].start_time = table[j].start_time
       /\ \/ table[i].end_time < table[j].end_time
          \/ (table[i].end_time = table[j].end_time /\ i <= j)

RECURSIVE order_by(_, _)
order_by(table, pks) ==
    IF pks = {} THEN <<>>
    ELSE LET first == CHOOSE i \in pks : \A j \in pks : OrderedBefore(table, i, j)
         IN  <<first>> \o order_by(table, pks \ {first})

\* lines 109-117: the primary keys of the rows of objs the filter keeps.
_daily_occurrences(table, objs, dt) ==
    LET start == StartOfDay(dt)
        end   == EndOfDay(start)
    IN  {i \in objs : DayOverlapQ(table[i], start, end)}

\* lines 124-135: qs.filter(event=event) if event else qs, in Meta's order.
daily_occurrences(table, dt, event) ==
    LET qs == _daily_occurrences(table, DOMAIN table, dt)
    IN  order_by(table, IF event # None
                        THEN {i \in qs : table[i].event = event}
                        ELSE qs)

-----------------------------------------------------------------------------
(* The tables behind the managers. *)

\* A slip: abbr without unique=True.
UniqueViolation_never(table, abbr) == FALSE

\* EventTypeBase.abbr is unique=True: the INSERT of a second row with the
\* same abbr raises IntegrityError.
UniqueViolation(table, abbr) == \E i \in DOMAIN table : table[i].abbr = abbr

\* EventType.objects.get(abbr=..., label=...): the matching primary keys.
get(table, abbr, label) ==
    {i \in DOMAIN table : table[i].abbr = abbr /\ table[i].label = label}

\* The rows of the Occurrence table a call has committed.  The field call
\* of a row is no column: it records which call inserted the row.
RowsOfCall(id) ==
    SelectSeq(occurrenceTable, LAMBDA row : row.call = id)

RowsOfEvent(event) ==
    SelectSeq(occurrenceTable, LAMBDA row : row.event = event)

Tagged(rows, id) ==
    [i \in DOMAIN rows |->
        [event |-> rows[i].event, start_time |-> rows[i].start_time,
         end_time |-> rows[i].end_time, call |-> id]]

\* A slip: the batches are sent outside a transaction, each committed as
\* it is sent.
bulk_insert_autocommit(table, txn, batch) == [table |-> table \o batch, txn |-> txn]

\* bulk_create sends its objects in batches inside transaction.atomic: a
\* batch's rows are pending, seen by nobody else, until the commit.
bulk_insert(table, txn, batch) == [table |-> table, txn |-> txn \o batch]

\* Leaving transaction.atomic without an exception: the pending rows are
\* committed together.
commit(table, txn) == table \o txn

\* Leaving transaction.atomic with an exception: the pending rows are
\* dropped.
rollback(table, txn) == table

-----------------------------------------------------------------------------
(* A thread's call. *)

NoCall ==
    [op |-> "none", id |-> 0, pair |-> FALSE, abbr |-> "", label |-> "",
     event_type |-> None, event |-> None, start_time |-> None,
     end_time |-> None, freq |-> None, interval |-> 1, count |-> None,
     until |-> None, dt |-> None]

NoFrame ==
    [event_type |-> None, created |-> FALSE, event |-> None,
     start_time |-> None, end_time |-> None, occurrences |-> <<>>,
     sent |-> 0, txn |-> <<>>, result |-> <<>>, error |-> ""]

Init ==
    /\ eventTypeTable = <<>>
    /\ eventTable = <<>>
    /\ occurrenceTable = <<>>
    /\ pc = [t \in Threads |-> "idle"]
    /\ call = [t \in Threads |-> NoCall]
    /\ frame = [t \in Threads |-> NoFrame]
    /\ ncalls = 0

\* create_event(title, event_type, description, start_time, end_time,
\* **rrule_params) is called with args; event_type is a pair (abbr, label)
\* or a stored EventType.
call_create_event(t, Args) ==
    /\ pc[t] = "idle"
    /\ ncalls < MaxCalls
    /\ \E a \in Args :
          /\ a.op = "create_event"
          /\ a.pair \/ a.event_type \in DOMAIN eventTypeTable
          /\ call' = [call EXCEPT ![t] = [a EXCEPT !.id = ncalls + 1]]
    /\ pc' = [pc EXCEPT ![t] = "create_event"]
    /\ frame' = [frame EXCEPT ![t] = NoFrame]
    /\ ncalls' = ncalls + 1
    /\ UNCHANGED <<eventTypeTable, eventTable, occurrenceTable>>

\* lines 208-212, first half of get_or_create: self.get(**lookup).
get_or_create_get(t) ==
    /\ pc[t] = "create_event"
    /\ IF call[t].pair
       THEN LET found == get(eventTypeTable, call[t].abbr, call[t].label)
            IN  IF found # {}
                THEN /\ frame' = [frame EXCEPT ![t].event_type = CHOOSE i \in found : TRUE]
                     /\ pc' = [pc EXCEPT ![t] = "event_create"]
                ELSE /\ pc' = [pc EXCEPT ![t] = "get_or_create_create"]
                     /\ UNCHANGED frame
       ELSE /\ frame' = [frame EXCEPT ![t].event_type = call[t].event_type]
            /\ pc' = [pc EXCEPT ![t] = "event_create"]
    /\ UNCHANGED <<eventTypeTable, eventTable, occurrenceTable, call, ncalls>>

\* get_or_create after DoesNotExist: self.create(**params); an
\* IntegrityError sends it to a second get.
get_or_create_create(t) ==
    /\ pc[t] = "get_or_create_create"
    /\ IF UniqueViolation(eventTypeTable, call[t].abbr)
       THEN /\ pc' = [pc EXCEPT ![t] = "get_or_create_get_again"]
            /\ UNCHANGED <<eventTypeTable, frame>>
       ELSE /\ eventTypeTable' = Append(eventTypeTable,
                                        [abbr |-> call[t].abbr, label |-> call[t].label])
            /\ frame' = [frame EXCEPT ![t].event_type = Len(eventTypeTable) + 1,
                                      ![t].created = TRUE]
            /\ pc' = [pc EXCEPT ![t] = "event_create"]
    /\ UNCHANGED <<eventTable, occurrenceTable, call, ncalls>>

\* get_or_create after IntegrityError: self.get(**lookup) again, and the
\* IntegrityError is raised again when that finds nothing.
get_or_create_get_again(t) ==
    /\ pc[t] = "get_or_create_get_again"
    /\ LET found == get(eventTypeTable, call[t].abbr, call[t].label)
       IN  IF found # {}
           THEN /\ frame' = [frame EXCEPT ![t].event_type = CHOOSE i \in found : TRUE]
                /\ pc' = [pc EXCEPT ![t] = "event_create"]
           ELSE /\ frame' = [frame EXCEPT ![t].error = "IntegrityError"]
                /\ pc' = [pc EXCEPT ![t] = "error"]
    /\ UNCHANGED <<eventTypeTable, eventTable, occurrenceTable, call, ncalls>>

\* A slip: event_cls(...) is built and never saved.
event_create_unsaved(t, Clock) ==
    /\ pc[t] = "event_create"
    /\ frame' = [frame EXCEPT ![t].event = Len(eventTable) + 1,
                              ![t].start_time = call[t].start_time,
                              ![t].end_time = call[t].end_time]
    /\ pc' = [pc EXCEPT ![t] = "add_occurrences"]
    /\ UNCHANGED <<eventTypeTable, eventTable, occurrenceTable, call, ncalls>>

\* lines 214-226: event_cls.objects.create(...), then the defaults of
\* start_time (the current hour) and end_time.
event_create(t, Clock) ==
    /\ pc[t] = "event_create"
    /\ eventTable' = Append(eventTable, [event_type |-> frame[t].event_type])
    /\ \E now \in IF call[t].start_time = None THEN Clock ELSE {None} :
          LET start_time == IF call[t].start_time # None THEN call[t].start_time
                            ELSE TruncateToHour(now)
              end_time   == IF call[t].end_time # None THEN call[t].end_time
                            ELSE start_time + DEFAULT_OCCURRENCE_DURATION
          IN  frame' = [frame EXCEPT ![t].event = Len(eventTable) + 1,
                                     ![t].start_time = start_time,
                                     ![t].end_time = end_time]
    /\ pc' = [pc EXCEPT ![t] = "add_occurrences"]
    /\ UNCHANGED <<eventTypeTable, occurrenceTable, call, ncalls>>

\* event.add_occurrences(start_time, end_time, **rrule_params) is called
\* on a stored event.
call_add_occurrences(t, Args) ==
    /\ pc[t] = "idle"
    /\ ncalls < MaxCalls
    /\ \E a \in Args :
          /\ a.op = "add_occurrences"
          /\ a.event \in DOMAIN eventTable
          /\ call' = [call EXCEPT ![t] = [a EXCEPT !.id = ncalls + 1]]
          /\ frame' = [frame EXCEPT ![t] = [NoFrame EXCEPT !.event = a.event,
                                                           !.start_time = a.start_time,
                                                           !.end_time = a.end_time]]
    /\ pc' = [pc EXCEPT ![t] = "add_occurrences"]
    /\ ncalls' = ncalls + 1
    /\ UNCHANGED <<eventTypeTable, eventTable, occurrenceTable>>

\* lines 70-84: the choice between one occurrence and the rule, and the
\* loop over the rule, which touches no table.
add_occurrences(t) ==
    /\ pc[t] = "add_occurrences"
    /\ IF SingleOccurrence(call[t].count, call[t].until)
       THEN /\ pc' = [pc EXCEPT ![t] = "occurrence_create"]
            /\ UNCHANGED frame
       ELSE LET e == expand(frame[t].event, frame[t].start_time, frame[t].end_time,
                            call[t].freq, call[t].interval, call[t].count,
                            call[t].until)
            IN  /\ frame' = [frame EXCEPT
                               ![t].occurrences = e.occurrences,
                               ![t].error = IF e.outcome = "ValueError"
                                            THEN "ValueError" ELSE ""]
                /\ pc' = [pc EXCEPT ![t] =
                            IF e.outcome = "ValueError" THEN "error"
                            ELSE IF e.outcome = "diverges" THEN "diverged"
                            ELSE IF e.occurrences = <<>> THEN "done"
                            ELSE "bulk_create"]
    /\ UNCHANGED <<eventTypeTable, eventTable, occurrenceTable, call, ncalls>>

\* line 73: self.occurrence_set.create(start_time=..., end_time=...)
occurrence_create(t) ==
    /\ pc[t] = "occurrence_create"
    /\ occurrenceTable' = occurrenceTable \o
          Tagged(<<single_occurrence(frame[t].event, frame[t].start_time,
                                     frame[t].end_time)>>, call[t].id)
    /\ pc' = [pc EXCEPT ![t] = "done"]
    /\ UNCHANGED <<eventTypeTable, eventTable, call, frame, ncalls>>

\* line 85: self.occurrence_set.bulk_create(occurrences): one batch of at
\* most BatchSize rows per step, and the commit after the last one.  (An
\* empty list returns at once: add_occurrences does not come here.)
bulk_create(t) ==
    /\ pc[t] = "bulk_create"
    /\ LET sent  == frame[t].sent
           last  == IF sent + BatchSize < Len(frame[t].occurrences)
                    THEN sent + BatchSize ELSE Len(frame[t].occurrences)
           batch == Tagged(SubSeq(frame[t].occurrences, sent + 1, last), call[t].id)
       IN  IF sent < Len(frame[t].occurrences)
           THEN LET w == bulk_insert(occurrenceTable, frame[t].txn, batch)
                IN  /\ occurrenceTable' = w.table
                    /\ frame' = [frame EXCEPT ![t].txn = w.txn, ![t].sent = last]
                    /\ UNCHANGED pc
           ELSE /\ occurrenceTable' = commit(occurrenceTable, frame[t].txn)
                /\ frame' = [frame EXCEPT ![t].txn = <<>>]
                /\ pc' = [pc EXCEPT ![t] = "done"]
    /\ UNCHANGED <<eventTypeTable, eventTable, call, ncalls>>

\* The database fails a statement that writes (the connection drops, the
\* disk is full, ...): the exception leaves the call, and a transaction
\* that is open is rolled back.
storage_error(t) ==
    /\ pc[t] \in {"get_or_create_create", "event_create", "occurrence_create",
                  "bulk_create"}
    /\ occurrenceTable' = rollback(occurrenceTable, frame[t].txn)
    /\ frame' = [frame EXCEPT ![t].txn = <<>>, ![t].error = "DatabaseError"]
    /\ pc' = [pc EXCEPT ![t] = "error"]
    /\ UNCHANGED <<eventTypeTable, eventTable, call, ncalls>>

\* Occurrence.objects.daily_occurrences(dt, event): one SELECT.
call_daily_occurrences(t, Args, Clock) ==
    /\ pc[t] = "idle"
    /\ ncalls < MaxCalls
    /\ \E a \in Args :
          /\ a.op = "daily_occurrences"
          /\ a.event = None \/ a.event \in DOMAIN eventTable
          /\ call' = [call EXCEPT ![t] = [a EXCEPT !.id = ncalls + 1]]
          /\ \E now \in IF a.dt = None THEN Clock ELSE {None} :
                frame' = [frame EXCEPT ![t] =
                    [NoFrame EXCEPT !.result =
                        daily_occurrences(occurrenceTable,
                                          IF a.dt # None THEN a.dt ELSE now,
                                          a.event)]]
    /\ pc' = [pc EXCEPT ![t] = "done"]
    /\ ncalls' = ncalls + 1
    /\ UNCHANGED <<eventTypeTable, eventTable, occurrenceTable>>

\* The call returns, or its exception reaches the caller.
return(t) ==
    /\ pc[t] \in {"done", "error"}
    /\ pc' = [pc EXCEPT ![t] = "idle"]
    /\ call' = [call EXCEPT ![t] = NoCall]
    /\ frame' = [frame EXCEPT ![t] = NoFrame]
    /\ UNCHANGED <<eventTypeTable, eventTable, occurrenceTable, ncalls>>

-----------------------------------------------------------------------------
(* The arguments the calls are checked with. *)

Midnight(d) == d * Day
LastSecond == 23 * Hour + 59 * Minute + 59 * Second

CreateEvent(abbr, label, start_time, end_time, freq, interval, count, until) ==
    [NoCall EXCEPT !.op = "create_event", !.pair = TRUE, !.abbr = abbr,
                   !.label = label, !.start_time = start_time,
                   !.end_time = end_time, !.freq = freq, !.interval = interval,
                   !.count = count, !.until = until]

CreateEventOfType(event_type) ==
    [NoCall EXCEPT !.op = "create_event", !.event_type = event_type]

AddOccurrences(event, start_time, end_time, freq, interval, count, until) ==
    [NoCall EXCEPT !.op = "add_occurrences", !.event = event,
                   !.start_time = start_time, !.end_time = end_time,
                   !.freq = freq, !.interval = interval, !.count = count,
                   !.until = until]

DailyOccurrences(dt, event) ==
    [NoCall EXCEPT !.op = "daily_occurrences", !.dt = dt, !.event = event]

\* What datetime.now() may return.
Clock == {Midnight(2) + 18 * Hour + 30 * Minute + 1}

Counts == {None} \cup (0..MaxCount)
Intervals == {-1} \cup (0..MaxInterval)
Freqs == {None, DAILY, WEEKLY}

\* One create_event call over the recurrence parameters: a start on the
\* second and one between two seconds; an end after, at and before the
\* start; until around the start, the next days and the next weeks.
RecurrenceStarts == {Midnight(1) + 18 * Hour, Midnight(1) + LastSecond + 1}
RecurrenceDurations == {90 * Minute, 0, -1}
RecurrenceUntils ==
    {None} \cup
    {Midnight(1) + 18 * Hour + k :
        k \in {-1, 0, Day - 1, Day, 2 * Day, Week, 2 * Week}} \cup
    {Midnight(1) + LastSecond, Midnight(1) + LastSecond + 1 + 2 * Day}

RecurrenceArgs ==
    {CreateEvent("PRAC", "Practice", s, s + d, f, i, c, u) :
        s \in RecurrenceStarts, d \in RecurrenceDurations, f \in Freqs,
        i \in Intervals, c \in Counts, u \in RecurrenceUntils}

\* Calls one after the other: occurrences whose ends lie on and next to
\* the bounds of the day window of day 2, and the queries of days 2 and 3.
WindowPoints ==
    {Midnight(2) - 1, Midnight(2), Midnight(2) + LastSecond,
     Midnight(2) + LastSecond + 1}

SequentialArgs ==
    {CreateEvent("PRAC", l, None, None, None, 1, None, None) :
        l \in {"Practice", "Play"}} \cup
    {CreateEventOfType(1)} \cup
    {CreateEvent("PRAC", "Practice", s, e, None, 1, c, None) :
        s \in WindowPoints, e \in WindowPoints, c \in {None, 2}} \cup
    {AddOccurrences(1, s, s + Hour, None, 1, None, u) :
        s \in {Midnight(2) - Hour, Midnight(3) - Hour},
        u \in {None, Midnight(3)}} \cup
    {DailyOccurrences(dt, e) :
        dt \in {None, Midnight(2) + 12 * Hour, Midnight(3)}, e \in {None, 1}}

\* Calls of several threads at once: two labels for one abbreviation, and
\* a rule of one occurrence, of several batches, and one that raises.
ConcurrentArgs ==
    {CreateEvent("PRAC", l, Midnight(1) + 18 * Hour,
                 Midnight(1) + 19 * Hour, None, r[1], r[2], None) :
        l \in {"Practice", "Play"},
        r \in {<<1, None>>, <<1, MaxCount>>, <<-1, 1>>}} \cup
    {AddOccurrences(1, Midnight(2), Midnight(2) + Hour, WEEKLY, 1, MaxCount, None),
     DailyOccurrences(Midnight(1), None)}

-----------------------------------------------------------------------------
(* The specifications. *)

\* The steps of a call that was made.
Step(t) ==
    \/ get_or_create_get(t)
    \/ get_or_create_create(t)
    \/ event_create(t, Clock)
    \/ add_occurrences(t)
    \/ occurrence_create(t)
    \/ bulk_create(t)
    \/ return(t)

\* Any number of threads call and run at once, and the database may fail.
Next ==
    \E t \in Threads :
        \/ call_create_event(t, ConcurrentArgs)
        \/ call_add_occurrences(t, ConcurrentArgs)
        \/ call_daily_occurrences(t, ConcurrentArgs, Clock)
        \/ get_or_create_get_again(t)
        \/ storage_error(t)
        \/ Step(t)

Spec == Init /\ [][Next]_vars

\* One call at a time: a thread calls, and runs, only when no other thread
\* is in a call.
Alone(t) == \A u \in Threads \ {t} : pc[u] = "idle"

NextSequential ==
    \E t \in Threads :
        \/ Alone(t) /\ call_create_event(t, SequentialArgs)
        \/ Alone(t) /\ call_add_occurrences(t, SequentialArgs)
        \/ Alone(t) /\ call_daily_occurrences(t, SequentialArgs, Clock)
        \/ Alone(t) /\ get_or_create_get(t)
        \/ Alone(t) /\ get_or_create_create(t)
        \/ Alone(t) /\ get_or_create_get_again(t)
        \/ Alone(t) /\ event_create(t, Clock)
        \/ Alone(t) /\ add_occurrences(t)
        \/ Alone(t) /\ occurrence_create(t)
        \/ Alone(t) /\ bulk_create(t)
        \/ Alone(t) /\ return(t)

SpecSequential == Init /\ [][NextSequential]_vars

\* One create_event call, over the recurrence parameters.
InitRecurrence ==
    /\ eventTypeTable = <<>>
    /\ eventTable = <<>>
    /\ occurrenceTable = <<>>
    /\ \E a \in RecurrenceArgs :
          call = [t \in Threads |-> IF t = 1 THEN [a EXCEPT !.id = 1] ELSE NoCall]
    /\ pc = [t \in Threads |-> IF t = 1 THEN "create_event" ELSE "idle"]
    /\ frame = [t \in Threads |-> NoFrame]
    /\ ncalls = 1

NextRecurrence == \E t \in Threads : Step(t)

SpecRecurrence == InitRecurrence /\ [][NextRecurrence]_vars

-----------------------------------------------------------------------------
(* Properties of one add_occurrences call (SpecRecurrence). *)

\* The thread is in create_event or add_occurrences.
Expanding(t) == call[t].op \in {"create_event", "add_occurrences"}

\* The (start, end) pairs of the rows a thread's call has committed.
StoredPairs(t) ==
    LET rows == RowsOfCall(call[t].id)
    IN  [i \in DOMAIN rows |-> <<rows[i].start_time, rows[i].end_time>>]

\* The k-th anchor (k = 0, 1, ...) of the rule of a call, counted from
\* first: freq is daily unless it is given as weekly.
Anchor(t, first, k) ==
    first + k * call[t].interval * (IF call[t].freq = WEEKLY THEN Week ELSE Day)

Duration(t) == call[t].end_time - call[t].start_time

\* C1: with neither count nor until, whatever freq and interval are, the
\* call builds no list from the rule, raises nothing, and when it has
\* returned exactly one occurrence is stored for it: (start_time, end_time).
C1_SingleOccurrence ==
    \A t \in Threads :
        (Expanding(t) /\ call[t].count = None /\ call[t].until = None) =>
            /\ pc[t] \notin {"bulk_create", "error", "diverged"}
            /\ frame[t].occurrences = <<>>
            /\ pc[t] = "done" =>
                  /\ StoredPairs(t) = <<<<call[t].start_time, call[t].end_time>>>>
                  /\ RowsOfCall(call[t].id)[1].event = frame[t].event
            /\ pc[t] # "done" => StoredPairs(t) = <<>>

C1_Witness ==
    \E t \in Threads :
        /\ pc[t] = "done" /\ call[t].op = "create_event"
        /\ call[t].count = None /\ call[t].until = None
        /\ call[t].freq = WEEKLY /\ call[t].interval = 0
        /\ call[t].start_time % Second # 0
        /\ Len(StoredPairs(t)) = 1

NextAnchor(t) ==
    IF StoredPairs(t) = <<>>
    THEN TruncateMicroseconds(call[t].start_time)
    ELSE Anchor(t, StoredPairs(t)[Len(StoredPairs(t))][1], 1)

\* C3 as claimed: with until = U in a valid specification (interval >= 1,
\* until not before start_time, count absent or >= 1), the call returns,
\* every start stored is <= U, and the anchor after the last one is > U.
C3_Original ==
    \A t \in Threads :
        (/\ Expanding(t) /\ pc[t] \in {"done", "error", "diverged"}
         /\ call[t].until # None /\ call[t].interval >= 1
         /\ call[t].until >= call[t].start_time
         /\ call[t].count # 0) =>
            /\ pc[t] = "done"
            /\ \A i \in DOMAIN StoredPairs(t) : StoredPairs(t)[i][1] <= call[t].until
            /\ NextAnchor(t) > call[t].until

\* C3, amended: with until = U and interval >= 1 the call returns, every
\* start stored is <= U, and the anchor after the last one is > U unless
\* count is given too and that many occurrences are stored.
C3_UntilMaximal ==
    \A t \in Threads :
        (/\ Expanding(t) /\ pc[t] \in {"done", "error", "diverged"}
         /\ call[t].until # None /\ call[t].interval >= 1) =>
            /\ pc[t] = "done"
            /\ \A i \in DOMAIN StoredPairs(t) : StoredPairs(t)[i][1] <= call[t].until
            /\ \/ NextAnchor(t) > call[t].until
               \/ call[t].count # None /\ Len(StoredPairs(t)) = call[t].count
            /\ call[t].count = None => NextAnchor(t) > call[t].until

C3_Witness ==
    \E t \in Threads :
        /\ pc[t] = "done" /\ call[t].op = "create_event"
        /\ call[t].until # None /\ call[t].count = None
        /\ call[t].freq = None /\ call[t].interval = 1
        /\ Len(StoredPairs(t)) >= 2
        /\ StoredPairs(t)[Len(StoredPairs(t))][1] < call[t].until

-----------------------------------------------------------------------------
(* Properties of the day query (SpecSequential). *)

Querying(t) == call[t].op = "daily_occurrences" /\ pc[t] = "done"

\* The days a query of a thread may be about: the day of dt, or the day of
\* what the clock read when dt is None.
QueryDays(t) ==
    IF call[t].dt # None THEN {call[t].dt \div Day}
    ELSE {now \div Day : now \in Clock}

WindowStart(day) == day * Day
WindowEnd(day) == day * Day + Day - Second

Result(t) == {frame[t].result[i] : i \in DOMAIN frame[t].result}

OfEvent(t, i) == call[t].event = None \/ occurrenceTable[i].event = call[t].event

IntervalsMeet(s, e, start, end) == s <= end /\ e >= start

\* The instants around the bounds of a day window and one day before and
\* after them.
AroundWindow(day) ==
    {WindowStart(day) + k :
        k \in {0 - Day, -1, 0, 1, Day - Second - 1, Day - Second,
               Day - Second + 1, Day, 2 * Day}}

\* C9 as claimed: among the occurrences that end no earlier than they start
\* (those stored, and those with ends around the bounds of a window) and
\* the day windows there is a pair, with an end of the occurrence on a bound
\* of the window, on which the filter and the closed-interval test disagree.
C9_Original ==
    \E day \in 1..3 :
        LET stored == {<<occurrenceTable[i].start_time, occurrenceTable[i].end_time>> :
                          i \in DOMAIN occurrenceTable}
        IN  \E o \in stored \cup (AroundWindow(day) \X AroundWindow(day)) :
                /\ o[2] >= o[1]
                /\ {o[1], o[2]} \cap {WindowStart(day), WindowEnd(day)} # {}
                /\ DayOverlapQ([start_time |-> o[1], end_time |-> o[2]],
                               StartOfDay(WindowStart(day)),
                               EndOfDay(StartOfDay(WindowStart(day))))
                   # IntervalsMeet(o[1], o[2], WindowStart(day), WindowEnd(day))

\* C9, amended: on every stored occurrence that ends no earlier than it
\* starts, an end on a bound of the window or not, a query gives what the
\* closed-interval test gives (the two differ only on an occurrence that
\* ends before it starts).
C9_SameAsClosedInterval ==
    \A t \in Threads :
        Querying(t) =>
            \E day \in QueryDays(t) :
                \A i \in DOMAIN occurrenceTable :
                    (/\ OfEvent(t, i)
                     /\ occurrenceTable[i].end_time >= occurrenceTable[i].start_time) =>
                        (i \in Result(t)) =
                            IntervalsMeet(occurrenceTable[i].start_time,
                                          occurrenceTable[i].end_time,
                                          WindowStart(day), WindowEnd(day))

C9_Witness ==
    \E t \in Threads :
        /\ Querying(t) /\ call[t].dt # None
        /\ \E i \in Result(t) :
              /\ occurrenceTable[i].start_time = WindowEnd(call[t].dt \div Day)
              /\ occurrenceTable[i].end_time > WindowEnd(call[t].dt \div Day)
        /\ \E i \in DOMAIN occurrenceTable \ Result(t) :
              /\ occurrenceTable[i].end_time >= occurrenceTable[i].start_time
              /\ occurrenceTable[i].start_time > WindowEnd(call[t].dt \div Day)

-----------------------------------------------------------------------------
(* Properties of create_event and of the tables. *)

\* C7 as claimed: with one call at a time, a create_event call given a pair
\* whose abbreviation a stored EventType already has (this call created
\* none) does not end in a duplicate error, and goes on with that EventType.
C7_Original ==
    \A t \in Threads :
        (/\ call[t].op = "create_event" /\ call[t].pair
         /\ ~frame[t].created
         /\ \E i \in DOMAIN eventTypeTable : eventTypeTable[i].abbr = call[t].abbr) =>
            /\ frame[t].error # "IntegrityError"
            /\ frame[t].event_type # None =>
                  eventTypeTable[frame[t].event_type].abbr = call[t].abbr

\* C6: whatever the threads do at once, no two rows of EventType have the
\* same abbreviation, no two calls in progress have both created the
\* EventType of one abbreviation, and a call that is past get_or_create
\* holds the row with its abbreviation and label.
C6_UniqueAbbreviation ==
    /\ \A i, j \in DOMAIN eventTypeTable :
          eventTypeTable[i].abbr = eventTypeTable[j].abbr => i = j
    /\ \A t, u \in Threads :
          (/\ t # u /\ frame[t].created /\ frame[u].created
           /\ call[t].pair /\ call[u].pair) =>
              call[t].abbr # call[u].abbr
    /\ \A t \in Threads :
          (call[t].op = "create_event" /\ call[t].pair /\ frame[t].event_type # None) =>
              /\ frame[t].event_type \in DOMAIN eventTypeTable
              /\ eventTypeTable[frame[t].event_type] =
                    [abbr |-> call[t].abbr, label |-> call[t].label]

\* Two calls with the same pair both missed on the lookup: one has created
\* the row, and the INSERT of the other has failed.
C6_Witness ==
    \E t, u \in Threads :
        /\ t # u
        /\ call[t].pair /\ call[u].pair
        /\ call[t].abbr = call[u].abbr /\ call[t].label = call[u].label
        /\ frame[t].created
        /\ pc[u] = "get_or_create_get_again"

\* The rows a call stores when all of its occurrences are stored.
WholeSeries(t) ==
    IF SingleOccurrence(call[t].count, call[t].until)
    THEN <<<<frame[t].start_time, frame[t].end_time>>>>
    ELSE [i \in DOMAIN frame[t].occurrences |->
             <<frame[t].occurrences[i].start_time, frame[t].occurrences[i].end_time>>]

\* C8: at every moment the table holds, of the occurrences of one call,
\* all or none; all when the call has returned, none when it has raised.
C8_AllOrNothing ==
    \A t \in Threads :
        Expanding(t) =>
            /\ StoredPairs(t) = <<>> \/ StoredPairs(t) = WholeSeries(t)
            /\ pc[t] = "done" => StoredPairs(t) = WholeSeries(t)
            /\ pc[t] = "error" => StoredPairs(t) = <<>>

\* A call whose first batch was sent and whose next statement failed.
C8_Witness ==
    \E t \in Threads :
        /\ Expanding(t) /\ pc[t] = "error"
        /\ frame[t].error = "DatabaseError"
        /\ frame[t].sent >= BatchSize
        /\ Len(frame[t].occurrences) > BatchSize
        /\ StoredPairs(t) = <<>>

\* C10: when add_occurrences has raised in create_event, the Event the call
\* created is stored, with the EventType of the call, which is stored too,
\* and no occurrence of the call is.
C10_EventKeptOnError ==
    \A t \in Threads :
        (/\ call[t].op = "create_event" /\ pc[t] = "error"
         /\ frame[t].event # None) =>
            /\ frame[t].event \in DOMAIN eventTable
            /\ eventTable[frame[t].event].event_type = frame[t].event_type
            /\ frame[t].event_type \in DOMAIN eventTypeTable
            /\ StoredPairs(t) = <<>>
            /\ \A i \in DOMAIN occurrenceTable :
                  occurrenceTable[i].event = frame[t].event =>
                      occurrenceTable[i].call # call[t].id

C10_Witness ==
    \E t \in Threads :
        /\ call[t].op = "create_event" /\ pc[t] = "error"
        /\ frame[t].error = "ValueError"
        /\ frame[t].created
        /\ frame[t].event \in DOMAIN eventTable
        /\ RowsOfEvent(frame[t].event) = <<>>

====
